---- MODULE Spec2Model ----
(***************************************************************************)
(* Model of the OneDrive share mirroring tool (main.go): the metadata      *)
(* document, the local disk, the remote tree and one run of                *)
(* main -> sync -> saveToMetadata, step by step.                           *)
(*                                                                         *)
(* Strings that the code takes apart (paths) are sequences of one-char     *)
(* strings, so that strings.TrimPrefix, strings.Cut, strings.Split,        *)
(* path.Join, path.Dir and path.Clean are computed as Go computes them.    *)
(***************************************************************************)
EXTENDS Integers, Sequences, FiniteSets, TLC

(* ------------------------------------------------------------------ *)
(* strings and package path                                            *)
(* ------------------------------------------------------------------ *)

HasPrefix(s, p) == Len(p) <= Len(s) /\ SubSeq(s, 1, Len(p)) = p

TrimPrefix(s, p) == IF HasPrefix(s, p) THEN SubSeq(s, Len(p) + 1, Len(s)) ELSE s

RECURSIVE TrimRight(_, _)
TrimRight(s, c) ==
    IF Len(s) > 0 /\ s[Len(s)] = c THEN TrimRight(SubSeq(s, 1, Len(s) - 1), c) ELSE s

IndexOf(s, c) ==
    IF \E i \in 1..Len(s) : s[i] = c
    THEN CHOOSE i \in 1..Len(s) : s[i] = c /\ \A j \in 1..(i - 1) : s[j] # c
    ELSE 0

LastIndexOf(s, c) ==
    IF \E i \in 1..Len(s) : s[i] = c
    THEN CHOOSE i \in 1..Len(s) : s[i] = c /\ \A j \in (i + 1)..Len(s) : s[j] # c
    ELSE 0

\* strings.Cut(s, sep) for a one-character sep
CutAt(s, i) ==
    IF i = 0 THEN [before |-> s, after |-> <<>>, found |-> FALSE]
    ELSE [before |-> SubSeq(s, 1, i - 1), after |-> SubSeq(s, i + 1, Len(s)), found |-> TRUE]

Cut(s, c) == CutAt(s, IndexOf(s, c))

\* strings.Split(s, sep) for a one-character sep: Split("", "/") = [""]
RECURSIVE Split(_, _)
SplitAt(s, c, i) ==
    IF i = 0 THEN <<s>>
    ELSE <<SubSeq(s, 1, i - 1)>> \o Split(SubSeq(s, i + 1, Len(s)), c)

Split(s, c) == SplitAt(s, c, IndexOf(s, c))

RECURSIVE JoinSegs(_)
JoinSegs(segs) ==
    IF Len(segs) = 0 THEN <<>>
    ELSE IF Len(segs) = 1 THEN segs[1]
    ELSE segs[1] \o <<"/">> \o JoinSegs(Tail(segs))

\* the element stack path.Clean keeps while it scans: "" and "." dropped,
\* ".." pops (or is dropped at the root, or kept in a relative path)
CleanPush(stack, s, rooted) ==
    IF s = <<>> \/ s = <<".">> THEN stack
    ELSE IF s = <<".", ".">>
         THEN IF Len(stack) > 0 /\ stack[Len(stack)] # <<".", ".">>
              THEN SubSeq(stack, 1, Len(stack) - 1)
              ELSE IF rooted THEN stack ELSE Append(stack, s)
         ELSE Append(stack, s)

RECURSIVE CleanStack(_, _, _)
CleanStack(segs, stack, rooted) ==
    IF Len(segs) = 0 THEN stack
    ELSE CleanStack(Tail(segs), CleanPush(stack, Head(segs), rooted), rooted)

CleanOut(out) == IF out = <<>> THEN <<".">> ELSE out

\* path.Clean
Clean(p) ==
    IF Len(p) > 0 /\ p[1] = "/"
    THEN <<"/">> \o JoinSegs(CleanStack(Split(p, "/"), <<>>, TRUE))
    ELSE CleanOut(JoinSegs(CleanStack(Split(p, "/"), <<>>, FALSE)))

\* path.Join(a, b): empty elements are ignored, the rest joined and cleaned
Join(a, b) ==
    IF a = <<>> /\ b = <<>> THEN <<>>
    ELSE IF a = <<>> THEN Clean(b)
    ELSE IF b = <<>> THEN Clean(a)
    ELSE Clean(a \o <<"/">> \o b)

\* path.Dir
Dir(p) == Clean(SubSeq(p, 1, LastIndexOf(p, "/")))

(* ------------------------------------------------------------------ *)
(* bounds                                                              *)
(* ------------------------------------------------------------------ *)

\* number of outside events in one behaviour: changes made between runs
\* (remote tree, input section of the document, local disk) and failures
\* injected into calls of the program, kills included
MaxEvents == 2

(* ------------------------------------------------------------------ *)
(* the remote tree (Remote Tree Client)                                *)
(* ------------------------------------------------------------------ *)

\* lastModifiedDateTime.String() values
Stamps == {"t1", "t2"}

\* the drive: /A/B/C/y (f1) and /A/D/x (f2); dB, dC, dD are folders
FileIds   == {"f1", "f2"}
FolderIds == {"dB", "dC", "dD"}

\* more of the drive, for the runs that only collect: the folder /E at the
\* top of the drive holds F/q (f4), F/r (f5), p (f3) and the empty folder G
MoreFileIds   == {"f3", "f4", "f5"}
MoreFolderIds == {"dE", "dF", "dG"}
CollectFileIds == FileIds \cup MoreFileIds

\* the id the drive gives to a file that is put at /A/B/C/y once f1 has
\* been removed from there
NewFileIds == {"f6"}
AllFileIds == CollectFileIds \cup NewFileIds
AllFolderIds  == FolderIds \cup MoreFolderIds

NodeName(n) ==
    CASE n = "dB" -> <<"B">> [] n = "dC" -> <<"C">> [] n = "dD" -> <<"D">>
      [] n \in {"f1", "f6"} -> <<"y">> [] n = "f2" -> <<"x">>
      [] n = "dE" -> <<"E">> [] n = "dF" -> <<"F">> [] n = "dG" -> <<"G">>
      [] n = "f3" -> <<"p">> [] n = "f4" -> <<"q">> [] n = "f5" -> <<"r">>

\* parentReference.path: the addressable prefix, ":", then the parent's path
NodeParentPath(n) ==
    CASE n = "dB" -> <<"d", ":", "/", "A">>
      [] n = "dD" -> <<"d", ":", "/", "A">>
      [] n = "dC" -> <<"d", ":", "/", "A", "/", "B">>
      [] n \in {"f1", "f6"} -> <<"d", ":", "/", "A", "/", "B", "/", "C">>
      [] n = "f2" -> <<"d", ":", "/", "A", "/", "D">>
      [] n = "dE" -> <<"d", ":">>
      [] n \in {"dF", "dG", "f3"} -> <<"d", ":", "/", "E">>
      [] n \in {"f4", "f5"} -> <<"d", ":", "/", "E", "/", "F">>

\* children in listing order
NodeChildren(n) ==
    CASE n = "dB" -> <<"dC">> [] n = "dC" -> <<"f1", "f6">> [] n = "dD" -> <<"f2">>
      [] n = "dE" -> <<"dF", "f3", "dG">> [] n = "dF" -> <<"f4", "f5">>
      [] OTHER -> <<>>

\* shared links and the node each resolves to
Links == {"LB", "LC", "LD", "LE", "LF", "LG", "L3"}
LinkTarget(l) ==
    CASE l = "LB" -> "dB" [] l = "LC" -> "dC" [] l = "LD" -> "dD"
      [] l = "LE" -> "dE" [] l = "LF" -> "dF" [] l = "LG" -> "dG" [] l = "L3" -> "f3"

\* the input sections an orchestrator writes
LinkLists == {<<"LB">>, <<"LB", "LD">>, <<"LB", "LC">>}
Cwd == <<"/", "w">>
OutputDirs == {<<>>, <<"/", "o">>}

VARIABLES
    remote,      \* file id -> [present, stamp]: the files of the drive that
                 \* this behaviour is about, as they are now
    doc,         \* the .metadata.json document on disk
    disk,        \* local disk: absolute path -> [kind, id, stamp]
    pc,          \* position of the running process, "idle" when none runs
    exitCode,    \* how the last process ended: "none", "0", "1", "killed";
                 \* "changed" once the outside world has changed since
    mainStatus,  \* metadata.Output.Status of main's copy
    mainError,   \* metadata.Output.Error of main's copy
    syncStatus,  \* metadata.Output.Status of saveToMetadata's copy
    files,       \* metadata.Output.Files (a map: shared by all copies)
    folders,     \* metadata.Output.Folders (a map: shared by all copies)
    dataPath,    \* workingDir handed to sync
    items,       \* the working set of sync: id -> [Item, Root]
    todo,        \* ids of items the Apply loop has not visited yet
    seen,        \* the local `folders` of saveToMetadata
    syncErr,     \* the error sync returned, "" for nil
    fetched,     \* ids whose content was requested in this run
    downloaded,  \* ids whose content was written to disk in this run
    events,      \* outside changes made and failures injected
    loaded,      \* Output section as loaded at the start of this run
    disk0,       \* local disk at the start of this run
    failPoint,   \* what the run had done when its first error occurred
    finalWrite,  \* the write of the document main ends with: "", "ok", "failed"
    prevOutput,  \* Output persisted by the previous run if it succeeded and
                 \* nothing has changed since; NoOutput otherwise
    resumeDone,  \* ids checkpointed by the previous run if it was killed
                 \* and nothing has changed since
    lastOutput,  \* Output persisted by the last run if it succeeded and
                 \* nothing has changed since it ended
    lastDone     \* ids checkpointed by the last run if it was killed and
                 \* nothing has changed since it ended

vars == <<remote, doc, disk, pc, exitCode, mainStatus, mainError, syncStatus,
          files, folders, dataPath, items, todo, seen, syncErr, fetched,
          downloaded, events, loaded, disk0, failPoint, finalWrite,
          prevOutput, resumeDone, lastOutput, lastDone>>

\* Output.Status values: "", "Done", or "Synced k files out of n"
StatusEmpty == [tag |-> "", k |-> 0, n |-> 0]
StatusDone == [tag |-> "Done", k |-> 0, n |-> 0]
StatusSynced(k, n) == [tag |-> "Synced", k |-> k, n |-> n]

EmptyMap == [i \in {} |-> 0]
NoOutput == [status |-> [tag |-> "none", k |-> 0, n |-> 0], error |-> "",
             files |-> EmptyMap, folders |-> {}]
NoFail == [at |-> "", err |-> "", todo |-> {}, files |-> EmptyMap,
           folders |-> {}, disk |-> EmptyMap]

DirEntry == [kind |-> "dir", id |-> "", stamp |-> ""]
FileEntry(id, stamp) == [kind |-> "file", id |-> id, stamp |-> stamp]

\* no process: its memory holds nothing
NoProcess(code) ==
    /\ pc' = "idle"
    /\ exitCode' = code
    /\ mainStatus' = StatusEmpty
    /\ mainError' = ""
    /\ syncStatus' = StatusEmpty
    /\ files' = EmptyMap
    /\ folders' = {}
    /\ dataPath' = <<>>
    /\ items' = EmptyMap
    /\ todo' = {}
    /\ seen' = {}
    /\ syncErr' = ""
    /\ fetched' = {}
    /\ downloaded' = {}
    /\ loaded' = NoOutput
    /\ disk0' = EmptyMap
    /\ failPoint' = NoFail
    /\ finalWrite' = ""
    /\ prevOutput' = NoOutput
    /\ resumeDone' = {}

\* a document an orchestrator has just written: an input section, nothing yet
\* in the output section
NewDocument(links, out) ==
    [input  |-> [sharedLinks |-> links, outputDir |-> out],
     output |-> [status |-> StatusEmpty, error |-> "",
                 files |-> EmptyMap, folders |-> {}]]

\* no process has run
NothingRun ==
    /\ pc = "idle"
    /\ exitCode = "none"
    /\ mainStatus = StatusEmpty
    /\ mainError = ""
    /\ syncStatus = StatusEmpty
    /\ files = EmptyMap
    /\ folders = {}
    /\ dataPath = <<>>
    /\ items = EmptyMap
    /\ todo = {}
    /\ seen = {}
    /\ syncErr = ""
    /\ fetched = {}
    /\ downloaded = {}
    /\ events = 0
    /\ disk0 = EmptyMap
    /\ failPoint = NoFail
    /\ finalWrite = ""
    /\ prevOutput = NoOutput
    /\ resumeDone = {}
    /\ lastOutput = NoOutput
    /\ lastDone = {}

\* nothing on the disk but the working directory, no process has run
ColdStart ==
    /\ disk = (<<"/">> :> DirEntry) @@ (Cwd :> DirEntry)
    /\ loaded = NoOutput
    /\ NothingRun

Init ==
    /\ remote \in [FileIds -> [present : {TRUE}, stamp : {"t1"}]]
    /\ \E links \in LinkLists, out \in OutputDirs : doc = NewDocument(links, out)
    /\ ColdStart

(* ------------------------------------------------------------------ *)
(* the outside world, between runs                                     *)
(* ------------------------------------------------------------------ *)

\* a change: only once a first run has ended (before it, a change is
\* another initial state), and it ends what is known of the last process
Changed ==
    /\ exitCode # "none"
    /\ events < MaxEvents
    /\ events' = events + 1
    /\ lastOutput' = NoOutput
    /\ lastDone' = {}
    /\ NoProcess("changed")

\* no other file of the drive is at the place of f
PlaceFree(f) ==
    \A g \in DOMAIN remote \ {f} :
        remote[g].present =>
            <<NodeParentPath(g), NodeName(g)>> # <<NodeParentPath(f), NodeName(f)>>

\* a remote file is modified, removed from the share or put back
RemoteChange ==
    /\ pc = "idle"
    /\ Changed
    /\ \E f \in DOMAIN remote, v \in [present : BOOLEAN, stamp : Stamps] :
         /\ v # remote[f]
         /\ (~v.present => v.stamp = remote[f].stamp)
         /\ (v.present => PlaceFree(f))
         /\ remote' = [remote EXCEPT ![f] = v]
    /\ UNCHANGED <<doc, disk>>

\* the orchestrator rewrites the input section of the document
SetInput ==
    /\ pc = "idle"
    /\ Changed
    /\ \E links \in LinkLists, out \in OutputDirs :
         /\ [sharedLinks |-> links, outputDir |-> out] # doc.input
         /\ doc' = [doc EXCEPT !.input = [sharedLinks |-> links, outputDir |-> out]]
    /\ UNCHANGED <<remote, disk>>

\* somebody deletes a local file
LocalRemove ==
    /\ pc = "idle"
    /\ Changed
    /\ \E p \in DOMAIN disk :
         /\ disk[p].kind = "file"
         /\ disk' = [q \in DOMAIN disk \ {p} |-> disk[q]]
    /\ UNCHANGED <<remote, doc>>

(* ------------------------------------------------------------------ *)
(* local disk (package os)                                             *)
(* ------------------------------------------------------------------ *)

\* a relative path is resolved against the working directory of the process
Abs(p) == IF Len(p) > 0 /\ p[1] = "/" THEN Clean(p) ELSE Join(Cwd, p)

\* q is p or lies below p
IsUnder(q, p) == q = p \/ p = <<"/">> \/ HasPrefix(q, p \o <<"/">>)

\* os.Stat(p) returns no error
Exists(d, p) == Abs(p) \in DOMAIN d

\* p and the directories above it
RECURSIVE Ancestors(_)
Ancestors(p) == IF p = <<"/">> THEN {p} ELSE {p} \cup Ancestors(Dir(p))

\* os.MkdirAll(p): an error when p or a directory above it is a file
MkdirEach(d, need) ==
    IF \E q \in need : q \in DOMAIN d /\ d[q].kind = "file"
    THEN [ok |-> FALSE, disk |-> d]
    ELSE [ok |-> TRUE,
          disk |-> [q \in DOMAIN d \cup need |->
                        IF q \in DOMAIN d THEN d[q] ELSE DirEntry]]

MkdirAll(d, p) == MkdirEach(d, Ancestors(Abs(p)))

\* os.WriteFile(p, data): an error when p is a directory or the directory
\* of p does not exist
WriteAt(d, a, dir, data) ==
    IF \/ (a \in DOMAIN d /\ d[a].kind = "dir")
       \/ dir \notin DOMAIN d
       \/ d[dir].kind # "dir"
    THEN [ok |-> FALSE, disk |-> d]
    ELSE [ok |-> TRUE,
          disk |-> [q \in DOMAIN d \cup {a} |-> IF q = a THEN data ELSE d[q]]]

WriteFile(d, p, data) == WriteAt(d, Abs(p), Dir(Abs(p)), data)

\* os.RemoveAll of every path of ps: the path and all below it go, a
\* missing path is no error, the empty path is ignored
RemoveRoots(d, roots) ==
    [q \in {q \in DOMAIN d : \A p \in roots : ~IsUnder(q, p)} |-> d[q]]

RemoveAll(d, ps) == RemoveRoots(d, {Abs(p) : p \in ps \ {<<>>}})

(* ------------------------------------------------------------------ *)
(* the program                                                         *)
(* ------------------------------------------------------------------ *)

\* what the client returns for a node, children expanded one level
GetItem(n, rem) ==
    [id         |-> n,
     name       |-> NodeName(n),
     parentPath |-> NodeParentPath(n),
     isFile     |-> n \in AllFileIds,
     stamp      |-> IF n \in DOMAIN rem THEN rem[n].stamp ELSE "",
     webUrl     |-> n,
     children   |-> SelectSeq(NodeChildren(n),
                        LAMBDA c : c \in AllFileIds =>
                                       (c \in DOMAIN rem /\ rem[c].present))]

FullNameOf(c, name) == IF c.found THEN Join(c.after, name) ELSE <<>>

getFullName(item) == FullNameOf(Cut(item.parentPath, ":"), item.name)

\* the files among the children of a node, none from further below
FlattenShallow(item, rem) ==
    IF item.isFile THEN <<item>>
    ELSE [i \in 1..Len(SelectSeq(item.children, LAMBDA c : c \in AllFileIds)) |->
              GetItem(SelectSeq(item.children, LAMBDA c : c \in AllFileIds)[i], rem)]

RECURSIVE getChildrenFileForItem(_, _)
getChildrenFileForItem(item, rem) ==
    LET RECURSIVE Each(_)
        Each(cs) ==
            IF cs = <<>> THEN <<>>
            ELSE getChildrenFileForItem(GetItem(Head(cs), rem), rem) \o Each(Tail(cs))
    IN  IF item.isFile THEN <<item>> ELSE Each(item.children)

\* items[*child.GetId()] = {child, root} for every child in turn: a later
\* entry for an id replaces an earlier one
PutChildren(acc, children, root) ==
    [id \in DOMAIN acc \cup {children[i].id : i \in 1..Len(children)} |->
        IF \E i \in 1..Len(children) : children[i].id = id
        THEN [Item |-> children[CHOOSE i \in 1..Len(children) :
                                   /\ children[i].id = id
                                   /\ \A j \in (i + 1)..Len(children) : children[j].id # id],
              Root |-> root]
        ELSE acc[id]]

\* the loop of sync over the shared links
RECURSIVE CollectItems(_, _, _)
CollectLink(shareDriveItem, rest, rem, acc) ==
    CollectItems(rest, rem,
                 PutChildren(acc, getChildrenFileForItem(shareDriveItem, rem),
                             Dir(getFullName(shareDriveItem))))

CollectItems(links, rem, acc) ==
    IF links = <<>> THEN acc
    ELSE CollectLink(GetItem(LinkTarget(Head(links)), rem), Tail(links), rem, acc)

\* json.MarshalIndent + os.WriteFile of a Metadata value
MetadataOf(status, error) ==
    [input  |-> doc.input,
     output |-> [status |-> status, error |-> error, files |-> files, folders |-> folders]]

\* main up to the call of sync: the document is read, nil maps are made,
\* the output directory is chosen
StartRun ==
    /\ pc = "idle"
    /\ pc' = "collect"
    /\ exitCode' = "none"
    /\ mainStatus' = doc.output.status
    /\ mainError' = doc.output.error
    /\ syncStatus' = doc.output.status
    /\ files' = doc.output.files
    /\ folders' = doc.output.folders
    /\ dataPath' = IF doc.input.outputDir # <<>> THEN doc.input.outputDir ELSE Cwd
    /\ items' = EmptyMap
    /\ todo' = {}
    /\ seen' = {}
    /\ syncErr' = ""
    /\ fetched' = {}
    /\ downloaded' = {}
    /\ loaded' = doc.output
    /\ disk0' = disk
    /\ failPoint' = NoFail
    /\ finalWrite' = ""
    /\ prevOutput' = lastOutput
    /\ resumeDone' = lastDone
    /\ lastOutput' = NoOutput
    /\ lastDone' = {}
    /\ UNCHANGED <<remote, doc, disk, events>>

\* a failure is injected into a call
Injected == events < MaxEvents /\ events' = events + 1

\* sync returns an error: the caller gets it, nothing else has changed
Fail(at, err) ==
    /\ pc' = "returned"
    /\ syncErr' = err
    /\ failPoint' = [at |-> at, err |-> err, todo |-> todo', files |-> files',
                     folders |-> folders', disk |-> disk']

\* a Collect loop that passes over a link whose request failed and goes
\* on to saveToMetadata with the items of the links before it
CollectGoesOn ==
    /\ pc = "collect"
    /\ UNCHANGED <<remote, doc, disk, exitCode, mainStatus, mainError, syncStatus,
                   files, folders, dataPath, seen, fetched, downloaded,
                   loaded, disk0, finalWrite, prevOutput, resumeDone, lastOutput,
                   lastDone, syncErr>>
    /\ pc' = "apply"
    /\ \/ /\ items' = CollectItems(doc.input.sharedLinks, remote, EmptyMap)
          /\ UNCHANGED <<failPoint, events>>
       \/ \E k \in 1..Len(doc.input.sharedLinks) :
            /\ Injected
            /\ items' = CollectItems(SubSeq(doc.input.sharedLinks, 1, k - 1), remote, EmptyMap)
            /\ failPoint' = [NoFail EXCEPT !.at = "collect", !.err = "fetch"]
    /\ todo' = DOMAIN items'

\* the Collect loop of sync
Collect ==
    /\ pc = "collect"
    /\ UNCHANGED <<remote, doc, disk, exitCode, mainStatus, mainError, syncStatus,
                   files, folders, dataPath, seen, fetched, downloaded,
                   loaded, disk0, finalWrite, prevOutput, resumeDone, lastOutput,
                   lastDone>>
    /\ \/ /\ items' = CollectItems(doc.input.sharedLinks, remote, EmptyMap)
          /\ todo' = DOMAIN items'
          /\ pc' = "apply"
          /\ UNCHANGED <<syncErr, failPoint, events>>
       \/ /\ doc.input.sharedLinks # <<>>
          /\ Injected
          /\ UNCHANGED <<items, todo>>
          /\ Fail("collect", "fetch")

relativePathWhole(it) == getFullName(it.Item)

\* where saveToMetadata puts an item, and the folder it counts it under
relativePath(it) == TrimPrefix(getFullName(it.Item), it.Root)
downloadPath(it, dir) == Join(dir, relativePath(it))
topRootFolder(it) == Split(TrimPrefix(relativePath(it), <<"/">>), "/")[1]

\* the record saveToMetadata works with for an item: the stored one, or a
\* new one that it stores
DetailFor(it, dir, fs) ==
    IF it.Item.id \in DOMAIN fs THEN fs[it.Item.id]
    ELSE [filePath  |-> downloadPath(it, dir),
          url       |-> it.Item.webUrl,
          updatedAt |-> it.Item.stamp]

\* the test that guards the download
NeedsDownloadIfAbsent(d, it, dir, detail) == ~Exists(d, downloadPath(it, dir))

NeedsDownload(d, it, dir, detail) ==
    ~Exists(d, downloadPath(it, dir)) \/ detail.updatedAt # it.Item.stamp

Faults == {"none", "mkdir", "fetch", "write", "persist"}

\* the calls of one iteration of the first loop of saveToMetadata that touch
\* the disk, with a failure injected in the call named by fault; hit is the
\* error the iteration returns
DiskResult(hit, fetch, wrote, d) ==
    [hit |-> hit, fetched |-> fetch, wrote |-> wrote, disk |-> d]

LastCall(fault) == IF fault = "persist" THEN "persist" ELSE "none"

Written(d, wr, fault) ==
    IF fault = "write" \/ ~wr.ok THEN DiskResult("write", TRUE, FALSE, d)
    ELSE DiskResult(LastCall(fault), TRUE, TRUE, wr.disk)

Download(id, it, dest, detail, d, fault) ==
    IF NeedsDownload(d, it, dataPath, detail)
    THEN IF fault = "fetch" THEN DiskResult("fetch", TRUE, FALSE, d)
         ELSE Written(d, WriteFile(d, dest, FileEntry(id, remote[id].stamp)), fault)
    ELSE DiskResult(LastCall(fault), FALSE, FALSE, d)

Made(id, it, dest, detail, d, mk, fault) ==
    IF fault = "mkdir" \/ ~mk.ok THEN DiskResult("mkdir", FALSE, FALSE, d)
    ELSE Download(id, it, dest, detail, mk.disk, fault)

DiskCalls(id, it, dest, detail, d, fault) ==
    IF ~Exists(d, Dir(dest))
    THEN Made(id, it, dest, detail, d, MkdirAll(d, Dir(dest)), fault)
    ELSE Download(id, it, dest, detail, d, fault)

\* one iteration of the first loop of saveToMetadata for item id
ApplyRecord(id, it, detail, fs, calls) ==
    [hit     |-> calls.hit,
     files   |-> fs,
     disk    |-> calls.disk,
     fetched |-> calls.fetched,
     wrote   |-> calls.wrote,
     seen    |-> IF calls.hit \in {"none", "persist"}
                 THEN seen \cup {topRootFolder(it)} ELSE seen,
     folders |-> IF calls.hit \in {"none", "persist"}
                 THEN folders \cup {topRootFolder(it)} ELSE folders,
     status  |-> IF calls.hit \in {"none", "persist"}
                 THEN StatusSynced(Cardinality(DOMAIN fs), Cardinality(DOMAIN items))
                 ELSE syncStatus]

ApplyDetail(id, it, detail, fault) ==
    ApplyRecord(id, it, detail,
                IF id \in DOMAIN files THEN files ELSE (id :> detail) @@ files,
                DiskCalls(id, it, downloadPath(it, dataPath), detail, disk, fault))

ApplyResult(id, fault) ==
    ApplyDetail(id, items[id], DetailFor(items[id], dataPath, files), fault)

RestSame(td, id) == td

\* the items the first loop of saveToMetadata has yet to visit once it has
\* visited id
Rest(td, id) == td \ {id}

ApplyItem ==
    /\ pc = "apply"
    /\ \E id \in todo, fault \in Faults :
         \E r \in {ApplyResult(id, fault)} :
             /\ fault \in {"none", r.hit}
             /\ IF fault = "none" THEN UNCHANGED events ELSE Injected
             /\ files' = r.files
             /\ disk' = r.disk
             /\ fetched' = IF r.fetched THEN fetched \cup {id} ELSE fetched
             /\ downloaded' = IF r.wrote THEN downloaded \cup {id} ELSE downloaded
             /\ seen' = r.seen
             /\ folders' = r.folders
             /\ syncStatus' = r.status
             /\ todo' = IF r.hit = "none" THEN Rest(todo, id) ELSE todo
             /\ IF r.hit = "none"
                THEN /\ doc' = [input  |-> doc.input,
                                output |-> [status |-> r.status, error |-> mainError,
                                            files |-> r.files, folders |-> r.folders]]
                     /\ UNCHANGED <<pc, syncErr, failPoint>>
                ELSE /\ UNCHANGED doc
                     /\ Fail("apply", r.hit)
    /\ UNCHANGED <<remote, exitCode, mainStatus, mainError, dataPath, items,
                   loaded, disk0, finalWrite, prevOutput, resumeDone, lastOutput,
                   lastDone>>

\* the path the second loop of saveToMetadata removes for a record
PrunePath(detail, dir) == Join(dir, detail.filePath)

\* the path the third loop of saveToMetadata removes for a folder name
FolderPrunePath(folder, dir) == TrimRight(folder, "/")

StaleIdsNone(fs, its) == {}

\* the records the second loop of saveToMetadata finds no item for
StaleIds(fs, its) == {id \in DOMAIN fs : id \notin DOMAIN its}

\* the second loop of saveToMetadata: records whose id is not in items.
\* It ends at the first os.RemoveAll that fails, having handled the
\* records (any of them: map order) it met before.
PruneFiles ==
    /\ pc = "apply"
    /\ todo = {}
    /\ UNCHANGED <<remote, doc, exitCode, mainStatus, mainError, syncStatus, folders,
                   dataPath, items, todo, seen, fetched, downloaded, loaded, disk0,
                   finalWrite, prevOutput, resumeDone, lastOutput, lastDone>>
    /\ LET stale == StaleIds(files, items)
           paths(S) == {PrunePath(files[id], dataPath) :
                            id \in {j \in S : files[j].filePath # <<>>}}
       IN  \/ /\ disk' = RemoveAll(disk, paths(stale))
              /\ files' = [id \in DOMAIN files \ stale |-> files[id]]
              /\ pc' = "pruneFolders"
              /\ UNCHANGED <<syncErr, failPoint, events>>
           \/ \E bad \in stale : \E S \in SUBSET (stale \ {bad}) :
                /\ files[bad].filePath # <<>>
                /\ Injected
                /\ disk' = RemoveAll(disk, paths(S))
                /\ files' = [id \in DOMAIN files \ S |-> files[id]]
                /\ Fail("pruneFiles", "remove")

\* the third loop of saveToMetadata: folder names no item of this run was
\* counted under
PruneFolders ==
    /\ pc = "pruneFolders"
    /\ UNCHANGED <<remote, doc, exitCode, mainStatus, mainError, syncStatus, files,
                   dataPath, items, todo, seen, fetched, downloaded, loaded, disk0,
                   finalWrite, prevOutput, resumeDone, lastOutput, lastDone>>
    /\ LET gone == {f \in folders : f \notin seen}
           paths(S) == {FolderPrunePath(f, dataPath) : f \in S}
       IN  \/ /\ disk' = RemoveAll(disk, paths(gone))
              /\ folders' = folders \ gone
              /\ pc' = "returned"
              /\ UNCHANGED <<syncErr, failPoint, events>>
           \/ \E bad \in gone : \E S \in SUBSET (gone \ {bad}) :
                /\ Injected
                /\ disk' = RemoveAll(disk, paths(S))
                /\ folders' = folders \ S
                /\ Fail("pruneFolders", "remove")

\* the process ends
Exit(code) ==
    /\ pc' = "idle"
    /\ exitCode' = code
    /\ lastOutput' = IF code = "0" THEN doc'.output ELSE NoOutput
    /\ lastDone' = {}

FailureErrorDropped(err) == ""

\* metadata.Output.Error = err.Error()
FailureError(err) == err

\* main after sync returned an error: the error is stored, a write of the
\* document is tried, exit status 1
MainFail ==
    /\ pc = "returned"
    /\ syncErr # ""
    /\ mainError' = FailureError(syncErr)
    /\ \/ /\ doc' = MetadataOf(mainStatus, mainError')
          /\ finalWrite' = "ok"
          /\ UNCHANGED events
       \/ /\ UNCHANGED doc
          /\ finalWrite' = "failed"
          /\ Injected
    /\ Exit("1")
    /\ UNCHANGED <<remote, disk, mainStatus, syncStatus, files, folders, dataPath,
                   items, todo, seen, syncErr, fetched, downloaded, loaded, disk0,
                   failPoint, prevOutput, resumeDone>>

\* the status main sets after sync returned nil
FinalStatus == StatusDone

FinalErrorKept(e) == e

\* the error main sets after sync returned nil
FinalError(e) == ""

\* main after sync returned nil: "Done", no error, the document written;
\* exit status 1 if that write fails
MainDone ==
    /\ pc = "returned"
    /\ syncErr = ""
    /\ mainStatus' = FinalStatus
    /\ mainError' = FinalError(mainError)
    /\ \/ /\ doc' = MetadataOf(mainStatus', mainError')
          /\ finalWrite' = "ok"
          /\ Exit("0")
          /\ UNCHANGED <<failPoint, events>>
       \/ /\ UNCHANGED doc
          /\ finalWrite' = "failed"
          /\ Injected
          /\ Exit("1")
          /\ failPoint' = [at |-> "final", err |-> "persist", todo |-> todo,
                           files |-> files, folders |-> folders, disk |-> disk]
    /\ UNCHANGED <<remote, disk, syncStatus, files, folders, dataPath, items, todo,
                   seen, syncErr, fetched, downloaded, loaded, disk0,
                   prevOutput, resumeDone>>

\* the process is killed between two steps
Crash ==
    /\ pc \in {"collect", "apply", "pruneFolders", "returned"}
    /\ Injected
    /\ NoProcess("killed")
    /\ lastOutput' = NoOutput
    /\ lastDone' = DOMAIN items \ todo
    /\ UNCHANGED <<remote, doc, disk>>

Next ==
    \/ RemoteChange \/ SetInput \/ LocalRemove
    \/ StartRun \/ Collect \/ ApplyItem \/ PruneFiles \/ PruneFolders
    \/ MainFail \/ MainDone \/ Crash

Spec == Init /\ [][Next]_vars

(* ------------------------------------------------------------------ *)
(* runs up to the end of the Collect loop, over the larger drive       *)
(* ------------------------------------------------------------------ *)

CollectLinkLists ==
    {<<"LE">>, <<"LF">>, <<"LG">>, <<"L3">>, <<"LB">>, <<"LE", "LF">>, <<"LF", "LE">>,
     <<"L3", "LE">>, <<"LB", "LC">>, <<"LC", "LB">>, <<"LD", "LF">>}

\* any part of the larger drive may be there; a link to a file resolves
\* only while the file is there
InitCollect ==
    /\ remote \in [CollectFileIds -> [present : BOOLEAN, stamp : {"t1"}]]
    /\ \E links \in CollectLinkLists, out \in OutputDirs :
         /\ \A i \in 1..Len(links) :
               LinkTarget(links[i]) \in AllFileIds => remote[LinkTarget(links[i])].present
         /\ doc = NewDocument(links, out)
    /\ ColdStart

NextCollect == StartRun \/ Collect \/ MainFail

SpecCollect == InitCollect /\ [][NextCollect]_vars

(* ------------------------------------------------------------------ *)
(* runs in the working directory itself, on a drive where a file may   *)
(* be replaced by a new one of the same name                           *)
(* ------------------------------------------------------------------ *)

ReplaceLinkLists == {<<"LB">>, <<"LC">>, <<"LB", "LD">>}

\* outputDir "." : the working directory, written as a relative path
HereDir == <<".">>

InitReplace ==
    /\ remote = [f \in FileIds \cup NewFileIds |->
                    [present |-> f \in FileIds, stamp |-> "t1"]]
    /\ \E links \in ReplaceLinkLists : doc = NewDocument(links, HereDir)
    /\ ColdStart

NextReplace ==
    \/ RemoteChange \/ LocalRemove
    \/ StartRun \/ Collect \/ ApplyItem \/ PruneFiles \/ PruneFolders
    \/ MainFail \/ MainDone \/ Crash

SpecReplace == InitReplace /\ [][NextReplace]_vars

(* ------------------------------------------------------------------ *)
(* the discovery variant (part_000): metadata.json is a map of records *)
(* with a sync flag, externalLinks.json holds the links                *)
(* ------------------------------------------------------------------ *)

\* path.Join(WORKSPACE_DIR, "knowledge", "integrations", "onedrive")
DiscoveryDir == <<"/", "k">>

\* outside changes made and failures injected in a behaviour of the variant
MaxDiscoveryEvents == 4

\* the keys of externalLinks.json
DiscoveryLinkSets == {{"LC"}, {"LB", "LD"}}

\* what main has read of the two documents
NothingLoaded == [externalLinks |-> {}, metadata |-> EmptyMap]

\* the variables the variant has no use for
NotInDiscovery ==
    UNCHANGED <<mainStatus, mainError, syncStatus, folders, dataPath, seen, syncErr,
                disk0, finalWrite, prevOutput, resumeDone, lastOutput, lastDone>>

InitDiscovery ==
    /\ remote \in [FileIds -> [present : {TRUE}, stamp : {"t1"}]]
    /\ \E links \in DiscoveryLinkSets :
          doc = [externalLinks |-> links, metadata |-> EmptyMap]
    /\ disk = (<<"/">> :> DirEntry) @@ (DiscoveryDir :> DirEntry)
    /\ loaded = NothingLoaded
    /\ NothingRun

\* something outside the program changes between two runs
DiscoveryChanged ==
    /\ pc = "idle"
    /\ exitCode # "none"
    /\ UNCHANGED pc
    /\ events < MaxDiscoveryEvents
    /\ events' = events + 1
    /\ exitCode' = "changed"
    /\ files' = EmptyMap
    /\ items' = EmptyMap
    /\ todo' = {}
    /\ fetched' = {}
    /\ downloaded' = {}
    /\ loaded' = NothingLoaded
    /\ UNCHANGED failPoint
    /\ NotInDiscovery

\* a remote file is modified, removed from the share or put back
DiscoveryRemoteChange ==
    /\ DiscoveryChanged
    /\ \E f \in DOMAIN remote, v \in [present : BOOLEAN, stamp : Stamps] :
         /\ v # remote[f]
         /\ (~v.present => v.stamp = remote[f].stamp)
         /\ remote' = [remote EXCEPT ![f] = v]
    /\ UNCHANGED <<doc, disk>>

\* the user sets or clears the sync flag of a record in metadata.json
ToggleSync ==
    /\ DiscoveryChanged
    /\ \E id \in DOMAIN doc.metadata :
         doc' = [doc EXCEPT !.metadata[id].sync = ~@]
    /\ UNCHANGED <<remote, disk>>

\* the variant's process ends: main writes nothing more
DiscoveryExit(code) ==
    /\ pc' = "idle"
    /\ exitCode' = code

DiscoveryInjected == events < MaxDiscoveryEvents /\ events' = events + 1

\* a call returns an error: it is logged and the process ends with exit
\* status 1; failPoint keeps the first such error of the behaviour
DiscoveryFail(at, err) ==
    /\ DiscoveryExit("1")
    /\ failPoint' = IF failPoint = NoFail
                    THEN [NoFail EXCEPT !.at = at, !.err = err] ELSE failPoint

\* main up to the loop over externalLinks: the data directory is made if
\* it is not there, else the two documents are read
DiscoveryStart ==
    /\ pc = "idle"
    /\ pc' = "links"
    /\ exitCode' = "none"
    /\ IF ~Exists(disk, DiscoveryDir)
       THEN /\ disk' = MkdirAll(disk, DiscoveryDir).disk
            /\ loaded' = NothingLoaded
       ELSE /\ disk' = disk
            /\ loaded' = doc
    /\ files' = loaded'.metadata
    /\ items' = EmptyMap
    /\ todo' = {}
    /\ fetched' = {}
    /\ downloaded' = {}
    /\ UNCHANGED <<remote, doc, events, failPoint>>
    /\ NotInDiscovery

\* the files found under a set of links, by id
DiscoveryChildren(links, rem) ==
    UNION {{getChildrenFileForItem(GetItem(LinkTarget(l), rem), rem)[i] :
               i \in 1..Len(getChildrenFileForItem(GetItem(LinkTarget(l), rem), rem))} :
           l \in links}

DiscoveryItems(children) ==
    [id \in {c.id : c \in children} |-> CHOOSE c \in children : c.id = id]

\* the loop of main over externalLinks; a request that fails ends the
\* process with exit status 1
DiscoveryCollect ==
    /\ pc = "links"
    /\ \/ /\ items' = DiscoveryItems(DiscoveryChildren(loaded.externalLinks, remote))
          /\ todo' = DOMAIN items'
          /\ pc' = "save"
          /\ UNCHANGED <<exitCode, events, failPoint>>
       \/ /\ loaded.externalLinks # {}
          /\ DiscoveryInjected
          /\ UNCHANGED <<items, todo>>
          /\ DiscoveryFail("links", "fetch")
    /\ UNCHANGED <<remote, doc, disk, files, fetched, downloaded, loaded>>
    /\ NotInDiscovery

\* path.Join(dataPath, id) and path.Join(dataPath, id, detail.FileName)
DiscoveryFolder(id) == Join(DiscoveryDir, <<id>>)
DiscoveryPath(id, detail) == Join(DiscoveryFolder(id), detail.fileName)

DiscoveryNeedsDownload(d, item, detail) ==
    ~Exists(d, DiscoveryPath(item.id, detail)) \/ detail.updatedAt # item.stamp

\* the download block of the variant's saveToMetadata
DiscoveryDownload(item, detail, d, fault) ==
    IF DiscoveryNeedsDownload(d, item, detail)
    THEN IF fault = "fetch" THEN DiskResult("fetch", TRUE, FALSE, d)
         ELSE Written(d, WriteFile(d, DiscoveryPath(item.id, detail),
                                   FileEntry(item.id, remote[item.id].stamp)), fault)
    ELSE DiskResult("none", FALSE, FALSE, d)

DiscoveryMade(item, detail, d, mk, fault) ==
    IF fault = "mkdir" \/ ~mk.ok THEN DiskResult("mkdir", FALSE, FALSE, d)
    ELSE DiscoveryDownload(item, detail, mk.disk, fault)

\* what the variant's saveToMetadata does on the disk for a record that
\* is there: nothing unless its sync flag is set
DiscoveryDiskCalls(item, detail, d, fault) ==
    IF ~detail.sync THEN DiskResult("none", FALSE, FALSE, d)
    ELSE IF ~Exists(d, DiscoveryFolder(item.id))
         THEN DiscoveryMade(item, detail, d, MkdirAll(d, DiscoveryFolder(item.id)), fault)
         ELSE DiscoveryDownload(item, detail, d, fault)

\* the record of an item after the iteration: the flag is kept, the rest
\* is the item's; a new record has no flag
DiscoveryDetail(item, fs) ==
    [fileName    |-> item.name,
     displayName |-> getFullName(item),
     url         |-> item.webUrl,
     updatedAt   |-> item.stamp,
     sync        |-> IF item.id \in DOMAIN fs THEN fs[item.id].sync ELSE FALSE]

DiscoveryFaults == {"none", "mkdir", "fetch", "write"}

\* one iteration of the first loop of the variant's saveToMetadata; an
\* error ends the process with exit status 1, metadata.json not written
DiscoveryApply ==
    /\ pc = "save"
    /\ \E id \in todo, fault \in DiscoveryFaults :
         \E r \in {IF id \in DOMAIN files
                    THEN DiscoveryDiskCalls(items[id], files[id], disk, fault)
                    ELSE DiskResult("none", FALSE, FALSE, disk)} :
             /\ fault \in {"none", r.hit}
             /\ IF fault = "none" THEN UNCHANGED events ELSE DiscoveryInjected
             /\ disk' = r.disk
             /\ fetched' = IF r.fetched THEN fetched \cup {id} ELSE fetched
             /\ downloaded' = IF r.wrote THEN downloaded \cup {id} ELSE downloaded
             /\ IF r.hit = "none"
                THEN /\ files' = (id :> DiscoveryDetail(items[id], files)) @@ files
                     /\ todo' = todo \ {id}
                     /\ UNCHANGED <<pc, exitCode, failPoint>>
                ELSE /\ UNCHANGED <<files, todo>>
                     /\ DiscoveryFail("save", r.hit)
    /\ UNCHANGED <<remote, doc, items, loaded>>
    /\ NotInDiscovery

\* the second loop of the variant's saveToMetadata and the end of main:
\* records without an item go, metadata.json is written
DiscoveryFinish ==
    /\ pc = "save"
    /\ todo = {}
    /\ files' = [id \in DOMAIN files \cap DOMAIN items |-> files[id]]
    /\ \/ /\ doc' = [doc EXCEPT !.metadata = files']
          /\ DiscoveryExit("0")
          /\ UNCHANGED <<events, failPoint>>
       \/ /\ UNCHANGED doc
          /\ DiscoveryInjected
          /\ DiscoveryFail("final", "persist")
    /\ UNCHANGED <<remote, disk, items, todo, fetched, downloaded, loaded>>
    /\ NotInDiscovery

NextDiscovery ==
    \/ DiscoveryRemoteChange \/ ToggleSync
    \/ DiscoveryStart \/ DiscoveryCollect \/ DiscoveryApply \/ DiscoveryFinish

SpecDiscovery == InitDiscovery /\ [][NextDiscovery]_vars

(* ------------------------------------------------------------------ *)
(* what the claims speak of                                            *)
(* ------------------------------------------------------------------ *)

\* a run has just ended with exit status 0 / 1 and nothing has changed since
Succeeded == pc = "idle" /\ exitCode = "0"
Failed == pc = "idle" /\ exitCode = "1"

\* the remote path of a node, read off the tree and not off the items
RemotePath(n) == SubSeq(NodeParentPath(n), 3, Len(NodeParentPath(n))) \o <<"/">> \o NodeName(n)

\* the ids of the leaf files that lie under the entry points of the input
ReachableLeaves(links, rem) ==
    {f \in DOMAIN rem :
        /\ rem[f].present
        /\ \E i \in 1..Len(links) : IsUnder(RemotePath(f), RemotePath(LinkTarget(links[i])))}

\* the place under the output directory where the run put (or would put) id
DestOf(id) == downloadPath(items[id], dataPath)

\* C1: a run that succeeds right after a successful run, with input, remote
\* tree and disk unchanged in between, downloads nothing and persists the
\* Output the first run persisted.
C1_SecondRunIdle ==
    (Succeeded /\ prevOutput # NoOutput) => (fetched = {} /\ doc.output = prevOutput)

\* C2: after a successful run, every id that had a record whose stamp
\* differed from the remote stamp was downloaded again and its persisted
\* record carries the remote stamp.
C2_StampRefreshed ==
    Succeeded =>
        \A id \in DOMAIN items \cap DOMAIN loaded.files :
            loaded.files[id].updatedAt # items[id].Item.stamp =>
                /\ id \in downloaded
                /\ id \in DOMAIN doc.output.files
                /\ doc.output.files[id].updatedAt = items[id].Item.stamp

\* C3: an iteration of the Apply loop that completes for an item has
\* downloaded the item's content if and only if, before it, the destination
\* file was absent or the record of the id carried a stamp other than the
\* remote one.
C3_DownloadRule ==
    [][\A id \in todo :
          (pc = "apply" /\ pc' = "apply" /\ id \notin todo') =>
              ((id \in downloaded') <=>
                  \/ Abs(DestOf(id)) \notin DOMAIN disk
                  \/ (id \in DOMAIN files /\ files[id].updatedAt # items[id].Item.stamp))]_vars

\* C3 witness: a tracked id, its file on disk and its stamp unchanged, went
\* through the Apply loop and was not fetched.
C3_Witness ==
    /\ pc = "apply"
    /\ \E id \in DOMAIN items \ todo :
         /\ id \in DOMAIN loaded.files
         /\ loaded.files[id].updatedAt = items[id].Item.stamp
         /\ Abs(DestOf(id)) \in DOMAIN disk0
         /\ id \notin fetched

\* C4: after a successful run no record that the document held before the
\* run, and whose id is not in items, still has its file on disk.
C4_StaleFilesGone ==
    Succeeded =>
        \A id \in DOMAIN loaded.files :
            id \notin DOMAIN items => Abs(loaded.files[id].filePath) \notin DOMAIN disk

\* C5: after a successful run every record of the persisted document is
\* for a leaf file that lies under an entry point of the input.
C5_RecordsReachable ==
    Succeeded => DOMAIN doc.output.files \subseteq ReachableLeaves(doc.input.sharedLinks, remote)

\* C5 witness: a successful run that started with a record for an id that
\* is no longer reachable.
C5_Witness ==
    /\ Succeeded
    /\ \E id \in DOMAIN loaded.files : id \notin ReachableLeaves(doc.input.sharedLinks, remote)

\* C6: after a successful run every folder name the document held before
\* the run and no item of the run was counted under is out of the
\* persisted folder set, and the folder of that name under the output
\* directory is off the disk.
C6_FoldersPruned ==
    Succeeded =>
        \A f \in loaded.folders \ seen :
            /\ f \notin doc.output.folders
            /\ Join(dataPath, f) \notin DOMAIN disk

\* C7: a run that follows a killed run, with nothing changed in between,
\* downloads no item the killed run had processed and checkpointed.
C7_ResumeSkipsDone == fetched \cap resumeDone = {}

\* C8: a persisted document with status "Done" has an empty error string.
C8_DoneHasNoError == doc.output.status = StatusDone => doc.output.error = ""

\* the run stopped where its error occurred, stored the error text, tried
\* the last write and ended with exit status 1
Reported ==
    /\ exitCode = "1"
    /\ mainError = failPoint.err
    /\ todo = failPoint.todo
    /\ files = failPoint.files
    /\ folders = failPoint.folders
    /\ disk = failPoint.disk
    /\ finalWrite # ""
    /\ (finalWrite = "ok" =>
            doc.output = [status |-> mainStatus, error |-> failPoint.err,
                          files |-> failPoint.files, folders |-> failPoint.folders])

\* C9 as written: whenever a step of a run fails, the run stops there, the
\* error text is in Output.Error, a last write is tried, exit status 1.
C9_EveryFailureReported == (pc = "idle" /\ failPoint.at # "") => Reported

\* C9 as amended: the same for a failure inside sync (Collect, Apply, Prune).
C9_SyncFailureReported ==
    (pc = "idle" /\ failPoint.at \notin {"", "final"}) => Reported

\* C9 witness: a run whose download failed in the Apply loop has ended.
C9_Witness == Failed /\ failPoint.at = "apply" /\ failPoint.err = "fetch"

\* C10: the document a successful run leaves has status "Done" and no error.
C10_DoneAndClean ==
    Succeeded => (doc.output.status = StatusDone /\ doc.output.error = "")

\* C10 witness: a successful run that had loaded a document with an error.
C10_Witness == Succeeded /\ loaded.error # ""

\* C11: every record that the run in progress or just ended has added to
\* the persisted document has its destination file on disk.
C11_RecordsHaveFiles ==
    loaded # NoOutput =>
        \A id \in DOMAIN doc.output.files \ DOMAIN loaded.files :
            Abs(doc.output.files[id].filePath) \in DOMAIN disk

\* C12: after a successful run every leaf file that lies under an entry
\* point has, at its destination path, a local file holding the content of
\* that leaf at its current remote stamp.
C12_MirrorsRemote ==
    Succeeded =>
        \A id \in ReachableLeaves(doc.input.sharedLinks, remote) :
            /\ id \in DOMAIN items
            /\ Abs(DestOf(id)) \in DOMAIN disk
            /\ disk[Abs(DestOf(id))] = FileEntry(id, remote[id].stamp)

\* the names a path is made of
PathSegs(p) == SelectSeq(Split(p, "/"), LAMBDA seg : seg \notin {<<>>, <<".">>})

AllButLast(q) == SubSeq(q, 1, Len(q) - 1)

\* the entry point a leaf is counted under: the last link of the input
\* whose node the leaf is or lies below
UnderLink(id, l) == IsUnder(RemotePath(id), RemotePath(LinkTarget(l)))

EntryOf(id, links) ==
    LinkTarget(links[CHOOSE i \in 1..Len(links) :
                        /\ UnderLink(id, links[i])
                        /\ \A j \in (i + 1)..Len(links) : ~UnderLink(id, links[j])])

\* the names of the remote path of leaf id from the name of entry point e on
NamesFrom(id, e) ==
    SubSeq(PathSegs(RemotePath(id)), Len(PathSegs(RemotePath(e))),
           Len(PathSegs(RemotePath(id))))

\* C13: for every item of the working set, with the entry point it is
\* counted under: the root prefix is the directory of the entry point's
\* remote path; the relative path is the leaf's remote path from the entry
\* point's name on (entry /A/B, leaf /A/B/C/y: B/C/y), a leading separator
\* apart; the destination is that path below the output directory; the
\* top-level folder name is its first name.
C13_PathDerivation ==
    pc = "apply" =>
        \A id \in DOMAIN items :
            /\ PathSegs(items[id].Root) =
                   AllButLast(PathSegs(RemotePath(EntryOf(id, doc.input.sharedLinks))))
            /\ PathSegs(relativePath(items[id])) =
                   NamesFrom(id, EntryOf(id, doc.input.sharedLinks))
            /\ Abs(downloadPath(items[id], dataPath)) =
                   Abs(dataPath) \o <<"/">>
                       \o JoinSegs(NamesFrom(id, EntryOf(id, doc.input.sharedLinks)))
            /\ topRootFolder(items[id]) =
                   NamesFrom(id, EntryOf(id, doc.input.sharedLinks))[1]

\* C13 witness: entry point /A/B, leaf /A/B/C/y, collected: B/C/y under B.
C13_Witness ==
    /\ pc = "apply"
    /\ doc.input.sharedLinks = <<"LB">>
    /\ "f1" \in DOMAIN items
    /\ items["f1"].Root = <<"/", "A">>
    /\ TrimPrefix(relativePath(items["f1"]), <<"/">>) = <<"B", "/", "C", "/", "y">>
    /\ topRootFolder(items["f1"]) = <<"B">>

\* the files now on the drive that are node n or lie below it
FilesBelow(n, rem) ==
    {f \in DOMAIN rem : rem[f].present /\ IsUnder(RemotePath(f), RemotePath(n))}

\* the nodes a client call can return now
NodesThere(rem) == AllFolderIds \cup {f \in DOMAIN rem : rem[f].present}

\* C14: for every node of the drive, getChildrenFileForItem returns the
\* files at or below the node as the client returns them, each once and
\* nothing else (for a file: the file alone); and the working set that the
\* Collect loop builds holds exactly the files below the entry points.
C14_FlattenExact ==
    /\ \A n \in NodesThere(remote) :
          \A r \in {getChildrenFileForItem(GetItem(n, remote), remote)} :
              /\ {r[i].id : i \in 1..Len(r)} = FilesBelow(n, remote)
              /\ \A i, j \in 1..Len(r) : r[i].id = r[j].id => i = j
              /\ \A i \in 1..Len(r) : r[i].isFile /\ r[i] = GetItem(r[i].id, remote)
              /\ (n \in AllFileIds => r = <<GetItem(n, remote)>>)
    /\ pc = "apply" =>
          /\ DOMAIN items = ReachableLeaves(doc.input.sharedLinks, remote)
          /\ \A id \in DOMAIN items : items[id].Item = GetItem(id, remote)

\* C14 witness: the folder /E, with a file, a folder of two files and an
\* empty folder in it, has been flattened into its three files.
C14_Witness ==
    /\ pc = "apply"
    /\ doc.input.sharedLinks = <<"LE">>
    /\ DOMAIN items = {"f3", "f4", "f5"}

\* C15: until the Collect loop has ended, disk, Files, Folders and the
\* persisted Output are as they were at load and nothing has been fetched;
\* and when a request of the Collect loop fails they stay so to the end of
\* the run, the leaves collected before the failure being dropped.
C15_CollectHasNoEffect ==
    (pc = "collect" \/ failPoint.at = "collect") =>
        /\ disk = disk0
        /\ files = loaded.files
        /\ folders = loaded.folders
        /\ doc.output.files = loaded.files
        /\ doc.output.folders = loaded.folders
        /\ fetched = {}
        /\ items = EmptyMap

\* C15 witness: a run that had records, folders and files to lose has ended
\* on a failed request of its Collect loop over two entry points.
C15_Witness ==
    /\ Failed
    /\ failPoint.at = "collect"
    /\ Len(doc.input.sharedLinks) = 2
    /\ loaded.files # EmptyMap
    /\ loaded.folders # {}
    /\ \E q \in DOMAIN disk0 : disk0[q].kind = "file"

\* C16: while the Apply loop runs and has processed at least one item, the
\* persisted status is "Synced K ... N" with N the number of items of the
\* working set and K the number of items processed so far, 1 <= K <= N.
C16_ProgressStatus ==
    (pc = "apply" /\ todo # DOMAIN items) =>
        /\ doc.output.status.tag = "Synced"
        /\ doc.output.status.n = Cardinality(DOMAIN items)
        /\ doc.output.status.k = Cardinality(DOMAIN items \ todo)
        /\ 1 <= doc.output.status.k
        /\ doc.output.status.k <= doc.output.status.n

\* how far a running process is from its end: the statements of main, and
\* in the first loop of saveToMetadata the items, it has yet to go through
Rank ==
    CASE pc = "idle" -> 0
      [] pc = "returned" -> 1
      [] pc = "pruneFolders" -> 2
      [] pc = "apply" -> 3 + Cardinality(todo)
      [] pc = "collect" -> 4 + Cardinality(AllFileIds)

\* C17: every step of a running process brings it nearer to its end (so a
\* run has no more steps than its working set has items, plus four), and
\* the step that ends it leaves exit status 0 with "Done" persisted, exit
\* status 1, or a killed process.
C17_RunTerminates ==
    [][pc # "idle" =>
          /\ Rank' < Rank
          /\ pc' = "idle" =>
                \/ (exitCode' = "0" /\ doc'.output.status = StatusDone)
                \/ exitCode' \in {"1", "killed"}]_vars

\* C17 witness: a run has ended with exit status 0 after its two prune
\* loops each had an entry to delete.
C17_Witness ==
    /\ Succeeded
    /\ StaleIds(loaded.files, items) # {}
    /\ loaded.folders \ seen # {}

\* C19: whenever the document has been persisted for an item of the running
\* process, the record of that item holds the destination path at which its
\* file was checked for and written in this run.
C19_RecordPathIsDestination ==
    pc # "idle" =>
        \A id \in (DOMAIN items \ todo) \cap DOMAIN doc.output.files :
            doc.output.files[id].filePath = downloadPath(items[id], dataPath)

\* C18: once the Apply loop has gone through every item of the working set,
\* the destination file of every item is on the disk, and it stays there
\* through Prune files and Prune folders up to the end of the run.
C18_SafeDeletion ==
    (todo = {} /\ pc \in {"pruneFolders", "returned"}) \/ Succeeded =>
        \A id \in DOMAIN items : Exists(disk, downloadPath(items[id], dataPath))

\* C20: in the discovery variant, a run downloads only records that had
\* their sync flag set when it began, and, as long as no run has failed,
\* after a run that ended with exit status 0 every record with the flag set
\* has its file on the disk, with the content the remote file had at the
\* stamp the record holds.
C20_SyncedFilesAreFresh ==
    /\ downloaded \subseteq {id \in DOMAIN loaded.metadata : loaded.metadata[id].sync}
    /\ Succeeded /\ failPoint = NoFail =>
          \A id \in DOMAIN items :
              doc.metadata[id].sync =>
                  /\ DiscoveryPath(id, doc.metadata[id]) \in DOMAIN disk
                  /\ disk[DiscoveryPath(id, doc.metadata[id])] =
                         FileEntry(id, doc.metadata[id].updatedAt)

====
